---------------------------- MODULE Spec2Model ----------------------------
(***************************************************************************)
(* A model of pnml_parser.py: parsePNML (extraction of places, transitions *)
(* and arcs, endpoint resolution, the isolated-node check, the 1-safe      *)
(* checks), compute_reachable_markings (the breadth-first / depth-first    *)
(* explorer) and the sequence of main (parse, printBFS, printDFS).         *)
(*                                                                         *)
(* Ids are strings in the program.  Here an id is a positive integer and   *)
(* the integer order stands for Python's order on strings, which is what   *)
(* sorted() uses; None (an absent attribute) is 0.  A Python dict is a     *)
(* sequence of records with pairwise distinct ids, in insertion order.     *)
(* The optional display name of a node is never read by the code modelled  *)
(* here and is left out.                                                   *)
(*                                                                         *)
(* The document is read one element at a time; the elements come from     *)
(* small sets (PlaceElements, TransitionElements, ArcElements) that hold   *)
(* every well-formed shape over the id pools and one element for each way  *)
(* an element can be wrong or unusual.                                     *)
(***************************************************************************)
EXTENDS Integers, Sequences, FiniteSets, TLC

\* ------------------------------------------------------------------ bounds

\* The number of <place>, <transition> and <arc> elements the document has at most.
MaxPlaces == 2
MaxTransitions == 2
MaxArcs == 2

\* ------------------------------------------------------------------ inputs

None == 0

\* The ids a <place> and a <transition> element may carry; id 2 may name both.
PlaceIdPool == {1, 2}
TransitionIdPool == {2, 3, 4}
NodeIdPool == PlaceIdPool \cup TransitionIdPool

\* The text found for initialMarking or inscription: absent, not a number, or a number.
NoText == [k |-> "none", v |-> 0]
BadText == [k |-> "bad", v |-> 0]
IntText(n) == [k |-> "int", v |-> n]

PlaceElement(pid, im_text) == [id |-> pid, im_text |-> im_text]
TransitionElement(tid) == [id |-> tid]
ArcElement(aid, source, target, weight_text) ==
    [id |-> aid, source |-> source, target |-> target, weight_text |-> weight_text]

\* The <place> elements: any id of the pool with no initial marking or the
\* marking 1, and the elements with something else: no id, a marking text
\* that is no number, is 0, is 2 (on either id) or is negative.
PlaceElements ==
    [id : PlaceIdPool, im_text : {NoText, IntText(1)}]
    \cup {PlaceElement(None, NoText),
          PlaceElement(1, BadText),
          PlaceElement(2, IntText(0)),
          PlaceElement(1, IntText(2)),
          PlaceElement(2, IntText(2)),
          PlaceElement(1, IntText(-1))}

TransitionElements == [id : {None} \cup TransitionIdPool]

\* The <arc> elements that may follow n arcs: a new id, any two endpoints and
\* no inscription, and the elements with something else: an inscription 2,
\* no id, a repeated id, a missing endpoint, an inscription that is no number,
\* is 0 or is negative.
ArcElements(n) ==
    [id : {n + 1}, source : NodeIdPool, target : NodeIdPool, weight_text : {NoText}]
    \cup {ArcElement(n + 1, 1, 3, IntText(2)),
          ArcElement(n + 1, 3, 2, IntText(2)),
          ArcElement(n + 1, 3, 1, IntText(2)),
          ArcElement(None, 1, 3, NoText),
          ArcElement(n, 1, 3, NoText),
          ArcElement(n + 1, None, 3, NoText),
          ArcElement(n + 1, 1, None, IntText(0)),
          ArcElement(n + 1, 1, 3, BadText),
          ArcElement(n + 1, 3, 1, BadText),
          ArcElement(n + 1, 1, 3, IntText(0)),
          ArcElement(n + 1, 1, 3, IntText(-1))}

\* ------------------------------------------------------------------ errors

NoError == [kind |-> "none", names |-> <<>>]
Err(kind, names) == [kind |-> kind, names |-> names]
Named(what, id, val) == [what |-> what, id |-> id, val |-> val]

\* ------------------------------------------------------------------ data

Place(pid, im) ==
    [id |-> pid, initial_marking |-> im, incoming |-> <<>>, outgoing |-> <<>>]
Transition(tid) == [id |-> tid, incoming |-> <<>>, outgoing |-> <<>>]
Arc(aid, source, target, weight) ==
    [id |-> aid, source |-> source, target |-> target, weight |-> weight]
PetriNet(ps, ts, as) == [places |-> ps, transitions |-> ts, arcs |-> as]
NoNet == PetriNet(<<>>, <<>>, <<>>)

\* The keys of a dict, as a set and in insertion order, and the value of a key.
Keys(d) == {d[i].id : i \in DOMAIN d}
KeySeq(d) == [i \in DOMAIN d |-> d[i].id]
Get(d, key) == d[CHOOSE i \in DOMAIN d : d[i].id = key]

Range(s) == {s[i] : i \in DOMAIN s}

parseInteger(s, default) == IF s.k = "int" THEN s.v ELSE default

VARIABLES
    pc,                 \* the position in main / parsePNML / compute_reachable_markings
    require_1safe,      \* the argument of parsePNML
    places,             \* parsePNML's local dict of places
    transitions,        \* parsePNML's local dict of transitions
    arcs,               \* parsePNML's local dict of arcs
    error,              \* the Error raised by parsePNML, NoError when none
    net,                \* the PetriNet parsePNML returned, NoNet before that
    returned,           \* whether parsePNML has returned a net
    dfs,                \* the mode of the running compute_reachable_markings
    pre, post,          \* its preset / postset tables
    visited,            \* its visited set
    container,          \* its frontier
    reachable_markings, \* its result list
    bfs_markings,       \* what printBFS got
    dfs_markings        \* what printDFS got

vars == <<pc, require_1safe, places, transitions, arcs, error, net, returned, dfs,
          pre, post, visited, container, reachable_markings, bfs_markings,
          dfs_markings>>

parseVars == <<places, transitions, arcs>>
exploreVars == <<dfs, pre, post, visited, container, reachable_markings>>
resultVars == <<bfs_markings, dfs_markings>>

\* parsePNML is called with require_1safe True (its default, and what main
\* passes) or False.
Init ==
    /\ pc = "net"
    /\ require_1safe \in BOOLEAN
    /\ places = <<>>
    /\ transitions = <<>>
    /\ arcs = <<>>
    /\ error = NoError
    /\ net = NoNet
    /\ returned = FALSE
    /\ dfs = FALSE
    /\ pre = <<>>
    /\ post = <<>>
    /\ visited = {}
    /\ container = <<>>
    /\ reachable_markings = <<>>
    /\ bfs_markings = <<>>
    /\ dfs_markings = <<>>

\* A variant of Raise: the error is recorded and parsePNML goes on to its
\* return statement.
RecordAndReturn(e) ==
    /\ pc' = "return"
    /\ error' = e
    /\ UNCHANGED <<require_1safe, parseVars, net, returned, exploreVars, resultVars>>
\* parsePNML raises: its locals are dropped, main's wrapper exits.
Raise(e) ==
    /\ pc' = "exit"
    /\ error' = e
    /\ places' = <<>>
    /\ transitions' = <<>>
    /\ arcs' = <<>>
    /\ UNCHANGED <<require_1safe, net, returned, exploreVars, resultVars>>

\* --------------------------------------------------------------- parsePNML

FindNet ==
    /\ pc = "net"
    /\ \E found \in BOOLEAN :
         IF found
         THEN /\ pc' = "collect"
              /\ UNCHANGED <<require_1safe, parseVars, error, net, returned,
                             exploreVars, resultVars>>
         ELSE Raise(Err("NoNet", <<>>))

CollectPlace ==
    /\ pc = "collect"
    /\ transitions = <<>> /\ arcs = <<>>
    /\ Len(places) < MaxPlaces
    /\ \E p \in PlaceElements :
         IF p.id = None
         THEN Raise(Err("PlaceNoId", <<>>))
         ELSE IF p.id \in Keys(places)
         THEN Raise(Err("DuplicatePlace", <<Named("place", p.id, 0)>>))
         ELSE /\ places' = Append(places, Place(p.id, parseInteger(p.im_text, 0)))
              /\ UNCHANGED <<pc, require_1safe, transitions, arcs, error, net,
                             returned, exploreVars, resultVars>>

CollectTransition ==
    /\ pc = "collect"
    /\ arcs = <<>>
    /\ Len(transitions) < MaxTransitions
    /\ \E t \in TransitionElements :
         IF t.id = None
         THEN Raise(Err("TransitionNoId", <<>>))
         ELSE IF t.id \in Keys(transitions)
         THEN Raise(Err("DuplicateTransition", <<Named("transition", t.id, 0)>>))
         ELSE /\ transitions' = Append(transitions, Transition(t.id))
              /\ UNCHANGED <<pc, require_1safe, places, arcs, error, net, returned,
                             exploreVars, resultVars>>

CollectArc ==
    /\ pc = "collect"
    /\ Len(arcs) < MaxArcs
    /\ \E a \in ArcElements(Len(arcs)) :
         LET weight == parseInteger(a.weight_text, 1) IN
         IF a.id = None
         THEN Raise(Err("ArcNoId", <<>>))
         ELSE IF a.id \in Keys(arcs)
         THEN Raise(Err("DuplicateArc", <<Named("arc", a.id, 0)>>))
         ELSE IF a.source = None \/ a.target = None
         THEN Raise(Err("ArcNoEndpoint", <<Named("arc", a.id, 0)>>))
         ELSE IF weight <= 0
         THEN Raise(Err("NonPositiveWeight", <<Named("arc", a.id, weight)>>))
         ELSE /\ arcs' = Append(arcs, Arc(a.id, a.source, a.target, weight))
              /\ UNCHANGED <<pc, require_1safe, places, transitions, error, net,
                             returned, exploreVars, resultVars>>

\* node_exists, and the attachment of an arc id to a node's list.
node_exists(ps, ts, node_id) == node_id \in Keys(ps) \/ node_id \in Keys(ts)

AppendOutgoing(d, key, aid) ==
    [i \in DOMAIN d |->
        IF d[i].id = key THEN [d[i] EXCEPT !.outgoing = Append(@, aid)] ELSE d[i]]
AppendIncoming(d, key, aid) ==
    [i \in DOMAIN d |->
        IF d[i].id = key THEN [d[i] EXCEPT !.incoming = Append(@, aid)] ELSE d[i]]

\* The node dicts after one arc is attached: a source or target that is a
\* place id goes to the place, any other to the transition.
\* A variant of AttachSource: two ifs in place of if / else.
AttachSourceBoth(ps, ts, arc) ==
    [places |-> AppendOutgoing(ps, arc.source, arc.id),
     transitions |-> AppendOutgoing(ts, arc.source, arc.id)]
AttachSource(ps, ts, arc) ==
    IF arc.source \in Keys(ps)
    THEN [places |-> AppendOutgoing(ps, arc.source, arc.id), transitions |-> ts]
    ELSE [places |-> ps, transitions |-> AppendOutgoing(ts, arc.source, arc.id)]
\* A variant of AttachTarget: two ifs in place of if / else.
AttachTargetBoth(ps, ts, arc) ==
    [places |-> AppendIncoming(ps, arc.target, arc.id),
     transitions |-> AppendIncoming(ts, arc.target, arc.id)]
AttachTarget(ps, ts, arc) ==
    IF arc.target \in Keys(ps)
    THEN [places |-> AppendIncoming(ps, arc.target, arc.id), transitions |-> ts]
    ELSE [places |-> ps, transitions |-> AppendIncoming(ts, arc.target, arc.id)]

\* The loop over arcs.items() from arc i on: the first arc with an unknown
\* endpoint raises, the others are attached.
RECURSIVE crossLink(_, _, _, _)
crossLink(ps, ts, as, i) ==
    IF i > Len(as)
    THEN [error |-> NoError, places |-> ps, transitions |-> ts]
    ELSE LET arc == as[i] IN
         IF ~node_exists(ps, ts, arc.source)
         THEN [error |-> Err("SourceNotFound", <<Named("arc", arc.id, arc.source)>>),
               places |-> ps, transitions |-> ts]
         ELSE IF ~node_exists(ps, ts, arc.target)
         THEN [error |-> Err("TargetNotFound", <<Named("arc", arc.id, arc.target)>>),
               places |-> ps, transitions |-> ts]
         ELSE LET s == AttachSource(ps, ts, arc)
                  t == AttachTarget(s.places, s.transitions, arc)
              IN  crossLink(t.places, t.transitions, as, i + 1)

\* The document has no more elements: arcs are resolved and attached.
CrossLink ==
    /\ pc = "collect"
    /\ LET r == crossLink(places, transitions, arcs, 1) IN
         IF r.error # NoError
         THEN Raise(r.error)
         ELSE /\ pc' = "isolated"
              /\ places' = r.places
              /\ transitions' = r.transitions
              /\ UNCHANGED <<require_1safe, arcs, error, net, returned, exploreVars,
                             resultVars>>

IsIsolated(n) == n.incoming = <<>> /\ n.outgoing = <<>>
NamePlace(p) == Named("place", p.id, 0)
NameTransition(t) == Named("transition", t.id, 0)
\* A variant of isolated_nodes: the loop over the transitions is missing.
isolated_places_only(ps, ts) ==
    LET ip == SelectSeq(ps, IsIsolated) IN [i \in DOMAIN ip |-> NamePlace(ip[i])]
\* The isolated places in the order of the dict, then the isolated transitions.
isolated_nodes(ps, ts) ==
    LET ip == SelectSeq(ps, IsIsolated)
        it == SelectSeq(ts, IsIsolated)
    IN  [i \in DOMAIN ip |-> NamePlace(ip[i])]
        \o [i \in DOMAIN it |-> NameTransition(it[i])]

CheckIsolated ==
    /\ pc = "isolated"
    /\ LET isolated == isolated_nodes(places, transitions) IN
         IF isolated # <<>>
         THEN Raise(Err("IsolatedNodes", isolated))
         ELSE /\ pc' = "safe"
              /\ UNCHANGED <<require_1safe, parseVars, error, net, returned,
                             exploreVars, resultVars>>

\* A variant of IsNonBinary: only a marking above 1 is an offender.
IsAboveOne(p) == p.initial_marking > 1
IsNonBinary(p) == p.initial_marking \notin {0, 1}
NameMarking(p) == Named("place", p.id, p.initial_marking)
bad_markings(ps) ==
    LET bad == SelectSeq(ps, IsNonBinary) IN [i \in DOMAIN bad |-> NameMarking(bad[i])]

IsHeavy(a) == a.weight # 1
NameArc(a) == Named("arc", a.id, 0)
\* A variant of heavy_arcs: the list stops at the first offender.
first_heavy_arc(as) ==
    LET heavy == SelectSeq(as, IsHeavy) IN
    IF heavy = <<>> THEN <<>> ELSE <<NameArc(heavy[1])>>
heavy_arcs(as) ==
    LET heavy == SelectSeq(as, IsHeavy) IN [i \in DOMAIN heavy |-> NameArc(heavy[i])]

\* A variant of CheckMarkings: the weights are looked at before the markings.
WeightsBeforeMarkings ==
    /\ pc = "safe"
    /\ IF require_1safe /\ heavy_arcs(arcs) # <<>>
       THEN Raise(Err("NonUnitWeights", heavy_arcs(arcs)))
       ELSE IF require_1safe /\ bad_markings(places) # <<>>
       THEN Raise(Err("NonBinaryMarkings", bad_markings(places)))
       ELSE /\ pc' = IF require_1safe THEN "weights" ELSE "return"
            /\ UNCHANGED <<require_1safe, parseVars, error, net, returned,
                           exploreVars, resultVars>>
\* The 1-safe block: the marking check, and the weight check after it.
CheckMarkings ==
    /\ pc = "safe"
    /\ IF require_1safe /\ bad_markings(places) # <<>>
       THEN Raise(Err("NonBinaryMarkings", bad_markings(places)))
       ELSE /\ pc' = IF require_1safe THEN "weights" ELSE "return"
            /\ UNCHANGED <<require_1safe, parseVars, error, net, returned,
                           exploreVars, resultVars>>

CheckWeights ==
    /\ pc = "weights"
    /\ IF heavy_arcs(arcs) # <<>>
       THEN Raise(Err("NonUnitWeights", heavy_arcs(arcs)))
       ELSE /\ pc' = "return"
            /\ UNCHANGED <<require_1safe, parseVars, error, net, returned,
                           exploreVars, resultVars>>

\* return PetriNet(...): main holds the net and goes on to printBFS.
ReturnNet ==
    /\ pc = "return"
    /\ net' = PetriNet(places, transitions, arcs)
    /\ returned' = TRUE
    /\ places' = <<>>
    /\ transitions' = <<>>
    /\ arcs' = <<>>
    /\ pc' = "printBFS"
    /\ UNCHANGED <<require_1safe, error, exploreVars, resultVars>>

\* ---------------------------------------------- compute_reachable_markings

\* pre[tid]: the sources of t.incoming that are places; post[tid]: the targets
\* of t.outgoing that are places.
PreTable(n) ==
    [tid \in Keys(n.transitions) |->
        {Get(n.arcs, aid).source :
            aid \in {a \in Range(Get(n.transitions, tid).incoming) :
                        Get(n.arcs, a).source \in Keys(n.places)}}]
\* A variant of PostTable: the test that the target is a place is missing.
PostTableUnfiltered(n) ==
    [tid \in Keys(n.transitions) |->
        {Get(n.arcs, aid).target : aid \in Range(Get(n.transitions, tid).outgoing)}]
PostTable(n) ==
    [tid \in Keys(n.transitions) |->
        {Get(n.arcs, aid).target :
            aid \in {a \in Range(Get(n.transitions, tid).outgoing) :
                        Get(n.arcs, a).target \in Keys(n.places)}}]

\* M0: the places with initial_marking > 0.
\* A variant of InitialMarking: >= 0 in place of > 0.
InitialMarkingNonNegative(n) ==
    {n.places[i].id : i \in {j \in DOMAIN n.places : n.places[j].initial_marking >= 0}}
InitialMarking(n) ==
    {n.places[i].id : i \in {j \in DOMAIN n.places : n.places[j].initial_marking > 0}}

\* sorted(keys): the keys in ascending order, by insertion into a sorted list.
RECURSIVE InsertSorted(_, _)
InsertSorted(key, s) ==
    IF s = <<>> THEN <<key>>
    ELSE IF key <= Head(s) THEN <<key>> \o s
    ELSE <<Head(s)>> \o InsertSorted(key, Tail(s))
RECURSIVE SortFrom(_, _)
SortFrom(keys, i) ==
    IF i > Len(keys) THEN <<>> ELSE InsertSorted(keys[i], SortFrom(keys, i + 1))
\* A variant of sorted: the keys as the dict holds them.
sortedAsDeclared(keys) == keys
sorted(keys) == SortFrom(keys, 1)

\* container.pop() in depth-first mode, container.pop(0) in breadth-first mode:
\* the marking taken and the container left.
Popped(cont, mode) == IF mode THEN cont[Len(cont)] ELSE cont[1]
\* Variants of AfterPop: the first entry is dropped in both modes; nothing is dropped.
AfterPopFront(cont, mode) == Tail(cont)
AfterPeek(cont, mode) == cont
AfterPop(cont, mode) == IF mode THEN SubSeq(cont, 1, Len(cont) - 1) ELSE Tail(cont)

\* A variant of IsUnvisited: the visited test is missing.
IsUnvisitedAlways(M, vis) == TRUE
IsUnvisited(M, vis) == M \notin vis
isEnabled(M, pre_t) == \A p \in pre_t : p \in M
\* Variants of fire: the preset is not removed; the preset is removed last.
fireKeepsPreset(M, pre_t, post_t) == M \cup post_t
fireRemovesLast(M, pre_t, post_t) == (M \cup post_t) \ pre_t
fire(M, pre_t, post_t) == (M \ pre_t) \cup post_t

\* A variant of PushSuccessors: container.insert(0, new_marking) in place of
\* container.append(new_marking).
RECURSIVE PushFront(_, _, _, _, _, _)
PushFront(M, pr, po, vis, cont, tids) ==
    IF tids = <<>> THEN cont
    ELSE LET tid == Head(tids)
             new_marking == fire(M, pr[tid], po[tid])
             pushed == IF isEnabled(M, pr[tid]) /\ new_marking \notin vis
                       THEN <<new_marking>> \o cont
                       ELSE cont
         IN  PushFront(M, pr, po, vis, pushed, Tail(tids))
\* The for loop over the sorted transition ids: the container after the
\* successors of M that are not visited are appended.
RECURSIVE PushSuccessors(_, _, _, _, _, _)
PushSuccessors(M, pr, po, vis, cont, tids) ==
    IF tids = <<>> THEN cont
    ELSE LET tid == Head(tids)
             new_marking == fire(M, pr[tid], po[tid])
             pushed == IF isEnabled(M, pr[tid]) /\ new_marking \notin vis
                       THEN Append(cont, new_marking)
                       ELSE cont
         IN  PushSuccessors(M, pr, po, vis, pushed, Tail(tids))

\* The explorer's locals at the start of the loop, and after one iteration.
Explorer(vis, cont, result) ==
    [visited |-> vis, container |-> cont, reachable_markings |-> result]
ExplorerStart(n) == Explorer({}, <<InitialMarking(n)>>, <<>>)
\* A variant of ExplorerStep: the test of dfs is missing, pop() is always used.
ExplorerStepAlwaysPop(n, pr, po, mode, st) ==
    LET M == Popped(st.container, TRUE)
        cont == AfterPop(st.container, TRUE)
    IN  IF IsUnvisited(M, st.visited)
        THEN LET vis == st.visited \cup {M} IN
             Explorer(vis,
                      PushSuccessors(M, pr, po, vis, cont,
                                     sorted(KeySeq(n.transitions))),
                      Append(st.reachable_markings, M))
        ELSE Explorer(st.visited, cont, st.reachable_markings)
ExplorerStep(n, pr, po, mode, st) ==
    LET M == Popped(st.container, mode)
        cont == AfterPop(st.container, mode)
    IN  IF IsUnvisited(M, st.visited)
        THEN LET vis == st.visited \cup {M} IN
             Explorer(vis,
                      PushSuccessors(M, pr, po, vis, cont,
                                     sorted(KeySeq(n.transitions))),
                      Append(st.reachable_markings, M))
        ELSE Explorer(st.visited, cont, st.reachable_markings)

\* A variant of Call: the loops that fill pre and post take the arc ids off
\* the transitions' lists (t.incoming.pop(), t.outgoing.pop()).
CallConsuming(mode) ==
    LET st == ExplorerStart(net) IN
    /\ dfs' = mode
    /\ pre' = PreTable(net)
    /\ post' = PostTable(net)
    /\ net' = [net EXCEPT !.transitions =
                  [i \in DOMAIN @ |-> [@[i] EXCEPT !.incoming = <<>>, !.outgoing = <<>>]]]
    /\ visited' = st.visited
    /\ container' = st.container
    /\ reachable_markings' = st.reachable_markings
    /\ pc' = "loop"
    /\ UNCHANGED <<require_1safe, parseVars, error, returned, resultVars>>
\* compute_reachable_markings(petrinet, dfs) is called.
Call(mode) ==
    LET st == ExplorerStart(net) IN
    /\ dfs' = mode
    /\ pre' = PreTable(net)
    /\ post' = PostTable(net)
    /\ visited' = st.visited
    /\ container' = st.container
    /\ reachable_markings' = st.reachable_markings
    /\ pc' = "loop"
    /\ UNCHANGED <<require_1safe, parseVars, error, net, returned, resultVars>>

PrintBFS ==
    /\ pc = "printBFS"
    /\ Call(FALSE)

PrintDFS ==
    /\ pc = "printDFS"
    /\ Call(TRUE)

\* One iteration of the while loop.
ExploreStep ==
    /\ pc = "loop"
    /\ container # <<>>
    /\ LET st == ExplorerStep(net, pre, post, dfs,
                              Explorer(visited, container, reachable_markings))
       IN  /\ visited' = st.visited
           /\ container' = st.container
           /\ reachable_markings' = st.reachable_markings
    /\ UNCHANGED <<pc, require_1safe, parseVars, error, net, returned, dfs, pre,
                   post, resultVars>>

\* The container is empty: the list is returned to printBFS or printDFS, the
\* explorer's locals are gone.
ReturnMarkings ==
    /\ pc = "loop"
    /\ container = <<>>
    /\ IF dfs
       THEN /\ dfs_markings' = reachable_markings
            /\ pc' = "done"
            /\ UNCHANGED bfs_markings
       ELSE /\ bfs_markings' = reachable_markings
            /\ pc' = "printDFS"
            /\ UNCHANGED dfs_markings
    /\ pre' = <<>>
    /\ post' = <<>>
    /\ visited' = {}
    /\ container' = <<>>
    /\ reachable_markings' = <<>>
    /\ UNCHANGED <<require_1safe, parseVars, error, net, returned, dfs>>

Next ==
    \/ FindNet
    \/ CollectPlace
    \/ CollectTransition
    \/ CollectArc
    \/ CrossLink
    \/ CheckIsolated
    \/ CheckMarkings
    \/ CheckWeights
    \/ ReturnNet
    \/ PrintBFS
    \/ PrintDFS
    \/ ExploreStep
    \/ ReturnMarkings

Spec == Init /\ [][Next]_vars

\* parsePNML after the elements are read, as a function of the three dicts
\* and the mode: the error raised, NoError when the net is returned.
validate(ps, ts, as, mode) ==
    LET r == crossLink(ps, ts, as, 1) IN
    IF r.error # NoError THEN r.error
    ELSE IF isolated_nodes(r.places, r.transitions) # <<>>
    THEN Err("IsolatedNodes", isolated_nodes(r.places, r.transitions))
    ELSE IF mode /\ bad_markings(r.places) # <<>>
    THEN Err("NonBinaryMarkings", bad_markings(r.places))
    ELSE IF mode /\ heavy_arcs(as) # <<>>
    THEN Err("NonUnitWeights", heavy_arcs(as))
    ELSE NoError
linked(ps, ts, as) ==
    LET r == crossLink(ps, ts, as, 1) IN PetriNet(r.places, r.transitions, as)

\* The dicts the three extraction loops can build from the element sets.
SeqsUpTo(S, n) == UNION {[1 .. k -> S] : k \in 0 .. n}
DistinctIds(d) == \A i, j \in DOMAIN d : d[i].id = d[j].id => i = j
PlaceDicts ==
    {d \in SeqsUpTo({Place(e.id, parseInteger(e.im_text, 0)) :
                        e \in {x \in PlaceElements : x.id # None}}, MaxPlaces) :
        DistinctIds(d)}
TransitionDicts ==
    {d \in SeqsUpTo({Transition(e.id) :
                        e \in {x \in TransitionElements : x.id # None}},
                    MaxTransitions) :
        DistinctIds(d)}
ArcValues ==
    {Arc(e.id, e.source, e.target, parseInteger(e.weight_text, 1)) :
        e \in {x \in UNION {ArcElements(n) : n \in 0 .. (MaxArcs - 1)} :
                  /\ x.id # None /\ x.source # None /\ x.target # None
                  /\ parseInteger(x.weight_text, 1) > 0}}
ArcDicts == {d \in SeqsUpTo(ArcValues, MaxArcs) : \A i \in DOMAIN d : d[i].id = i}

\* The nets parsePNML returns in a mode.
ReturnedNets(mode) ==
    {linked(c[1], c[2], c[3]) :
        c \in {x \in PlaceDicts \X TransitionDicts \X ArcDicts :
                  validate(x[1], x[2], x[3], mode) = NoError}}

\* The explorer alone: main from the return of parsePNML on.
InitReturned ==
    /\ pc = "printBFS"
    /\ require_1safe \in BOOLEAN
    /\ net \in ReturnedNets(require_1safe)
    /\ returned = TRUE
    /\ places = <<>>
    /\ transitions = <<>>
    /\ arcs = <<>>
    /\ error = NoError
    /\ dfs = FALSE
    /\ pre = <<>>
    /\ post = <<>>
    /\ visited = {}
    /\ container = <<>>
    /\ reachable_markings = <<>>
    /\ bfs_markings = <<>>
    /\ dfs_markings = <<>>

NextExplore ==
    \/ PrintBFS
    \/ PrintDFS
    \/ ExploreStep
    \/ ReturnMarkings

\* The program is sequential: it takes its next step whenever it has one.
FairExploreSpec == InitReturned /\ [][NextExplore]_vars /\ WF_vars(NextExplore)

\* compute_reachable_markings as a function of the net and the mode: the
\* loop run to its end.
RECURSIVE RunLoop(_, _, _, _, _)
RunLoop(n, pr, po, mode, st) ==
    IF st.container = <<>> THEN st.reachable_markings
    ELSE RunLoop(n, pr, po, mode, ExplorerStep(n, pr, po, mode, st))
compute_reachable_markings(n, mode) ==
    RunLoop(n, PreTable(n), PostTable(n), mode, ExplorerStart(n))

\* -------------------------------------------------------------- properties

\* The firing rule of a net, read off its arcs: the preset of t is the set of
\* places with an arc into t, the postset the set of places with an arc out
\* of t; t fires at M iff its preset is within M.
ArcSet(n) == Range(n.arcs)
preset(n, tid) ==
    {a.source : a \in {b \in ArcSet(n) : b.target = tid /\ b.source \in Keys(n.places)}}
postset(n, tid) ==
    {a.target : a \in {b \in ArcSet(n) : b.source = tid /\ b.target \in Keys(n.places)}}
EnabledAt(n, M) == {tid \in Keys(n.transitions) : preset(n, tid) \subseteq M}
FiringOf(n, M, tid) == (M \ preset(n, tid)) \cup postset(n, tid)
SuccessorsOf(n, M) == {FiringOf(n, M, tid) : tid \in EnabledAt(n, M)}
InitiallyMarked(n) == {p.id : p \in {q \in Range(n.places) : q.initial_marking > 0}}

\* The markings obtainable from those of S by finitely many firings.
RECURSIVE ReachableFrom(_, _)
ReachableFrom(n, S) ==
    LET T == S \cup UNION {SuccessorsOf(n, M) : M \in S} IN
    IF T = S THEN S ELSE ReachableFrom(n, T)
ReachabilitySet(n) == ReachableFrom(n, {InitiallyMarked(n)})

NoRepeats(s) == \A i, j \in DOMAIN s : s[i] = s[j] => i = j
BfsReturned == pc \in {"printDFS", "done"} \/ (pc = "loop" /\ dfs)
DfsReturned == pc = "done"

\* C1: in either mode the markings returned for a net parsePNML returned are
\* exactly the reachability set: M0 and every marking obtainable from M0 by
\* finitely many firings, and no other marking.
C1_ReachabilitySetExact ==
    /\ BfsReturned => Range(bfs_markings) = ReachabilitySet(net)
    /\ DfsReturned => Range(dfs_markings) = ReachabilitySet(net)

\* Both runs are over, for a net with four reachable markings, one of them
\* two firings away from M0.
C1_Witness ==
    /\ pc = "done"
    /\ Cardinality(ReachabilitySet(net)) >= 4
    /\ Cardinality({InitiallyMarked(net)} \cup SuccessorsOf(net, InitiallyMarked(net))) = 3
    /\ Len(bfs_markings) >= 4 /\ Len(dfs_markings) >= 4

\* C2: the breadth-first run and the depth-first run return the same set of
\* markings; only the order of the two sequences may differ.
C2_SameSetBothModes ==
    pc = "done" => Range(bfs_markings) = Range(dfs_markings)

\* Both runs are over and the two sequences differ in order.
C2_Witness ==
    /\ pc = "done"
    /\ bfs_markings # dfs_markings
    /\ Len(bfs_markings) >= 3

\* One iteration of the loop, as the pop rule states it: a popped marking that
\* is not visited is appended and becomes visited; a popped marking that is
\* visited leaves the result and the visited set alone and pushes nothing.
C3_PopRule ==
    (pc = "loop" /\ container # <<>>) =>
        LET M == IF dfs THEN container[Len(container)] ELSE container[1]
            rest == IF dfs THEN SubSeq(container, 1, Len(container) - 1)
                    ELSE SubSeq(container, 2, Len(container))
        IN  IF M \in visited
            THEN /\ reachable_markings' = reachable_markings
                 /\ visited' = visited
                 /\ container' = rest
            ELSE /\ reachable_markings' = Append(reachable_markings, M)
                 /\ visited' = visited \cup {M}
\* C3: no marking occurs twice in reachable_markings, during the loop or in
\* the returned sequences; a marking is appended only when it is popped and
\* not yet visited, and a pop of a visited marking appends and pushes nothing.
C3_AppendedOnce ==
    /\ [](NoRepeats(reachable_markings) /\ NoRepeats(bfs_markings)
          /\ NoRepeats(dfs_markings))
    /\ [][C3_PopRule]_vars

\* The next marking to be popped is already visited and in the result: it was
\* pushed more than once, since only markings not yet visited are pushed.
C3_Witness ==
    /\ pc = "loop"
    /\ container # <<>>
    /\ Popped(container, dfs) \in visited
    /\ Popped(container, dfs) \in Range(reachable_markings)
    /\ Len(reachable_markings) >= 2

\* C4: the exploration loop reaches an empty frontier and returns, in the
\* breadth-first and in the depth-first run, also when the marking graph has
\* cycles: every run of the explorer ends with both sequences returned.
C4_LoopReturns == <>(pc = "done" /\ container = <<>>)

\* Both runs have returned for a net whose marking graph has a cycle: a
\* reachable marking that is obtainable from one of its own successors.
HasCycle(n) ==
    \E M \in ReachabilitySet(n) : M \in ReachableFrom(n, SuccessorsOf(n, M))
C4_Witness ==
    /\ pc = "done"
    /\ HasCycle(net)
    /\ Len(bfs_markings) >= 3

\* C5: the sequence returned depends on the net and the mode only, not on the
\* order in which places, transitions and arcs were declared: every net that
\* is declared in another order gives the same two sequences.
Orderings(s) ==
    {[i \in DOMAIN s |-> s[f[i]]] :
        f \in {g \in [DOMAIN s -> DOMAIN s] : \A i, j \in DOMAIN s : g[i] = g[j] => i = j}}
Declared(n, ps, ts, as) ==
    LET r == crossLink([i \in DOMAIN ps |-> Place(ps[i].id, ps[i].initial_marking)],
                       [i \in DOMAIN ts |-> Transition(ts[i].id)], as, 1)
    IN  PetriNet(r.places, r.transitions, as)
Redeclarations(n) ==
    {Declared(n, ps, ts, as) :
        ps \in Orderings(n.places), ts \in Orderings(n.transitions),
        as \in Orderings(n.arcs)}
C5_OrderOfDeclarationIrrelevant ==
    pc = "done" =>
        \A m \in Redeclarations(net) :
            /\ compute_reachable_markings(m, FALSE) = bfs_markings
            /\ compute_reachable_markings(m, TRUE) = dfs_markings

\* Both runs are over for a net whose transitions were declared in descending
\* id order, two of them enabled at M0 with different successors.
C5_Witness ==
    /\ pc = "done"
    /\ Len(net.transitions) = 2
    /\ net.transitions[1].id > net.transitions[2].id
    /\ Cardinality(SuccessorsOf(net, InitiallyMarked(net)) \ {InitiallyMarked(net)}) = 2

\* One iteration that processes a marking M: the markings pushed are
\* successors (M \ preset(t)) union postset(t) of M through enabled transitions
\* t, each holding every place that is in both the preset and the postset of
\* t, and every such successor is visited or on the frontier afterwards.
C6_Step ==
    (pc = "loop" /\ container # <<>>
        /\ (IF dfs THEN container[Len(container)] ELSE container[1]) \notin visited) =>
        LET M == IF dfs THEN container[Len(container)] ELSE container[1]
            pushed == Range(SubSeq(container', Len(container), Len(container')))
        IN  /\ \A N \in pushed :
                 \E tid \in EnabledAt(net, M) :
                     /\ N = FiringOf(net, M, tid)
                     /\ (preset(net, tid) \cap postset(net, tid)) \subseteq N
            /\ \A tid \in EnabledAt(net, M) :
                 FiringOf(net, M, tid) \in visited' \cup pushed
\* C6: for every marking M the explorer processes and every transition t
\* enabled at M, the successor it computes is (M \ preset(t)) union postset(t),
\* so each place in both the preset and the postset of t stays marked.
C6_OverlapStaysMarked == [][C6_Step]_vars

\* A marking has been processed at which a transition is enabled whose preset
\* and postset share a place.
C6_Witness ==
    /\ pc = "loop"
    /\ \E M \in visited : \E tid \in EnabledAt(net, M) :
         preset(net, tid) \cap postset(net, tid) # {}

\* C7: every marking on the frontier, visited, in the result or returned holds
\* ids of places of the net only.
MarkingsInPlay ==
    visited \cup Range(container) \cup Range(reachable_markings)
    \cup Range(bfs_markings) \cup Range(dfs_markings)
C7_OnlyPlaceIds == \A M \in MarkingsInPlay : M \subseteq Keys(net.places)

\* Both runs are over for a net with an arc that joins two transitions and a
\* transition that marks a place.
C7_Witness ==
    /\ pc = "done"
    /\ \E a \in ArcSet(net) :
         a.source \in Keys(net.transitions) /\ a.target \in Keys(net.transitions)
    /\ Len(bfs_markings) >= 2

\* C8: for a net with no transition both runs return the one-element sequence
\* of M0, the set of the places whose initial_marking is above 0.
C8_NoTransitions ==
    (pc = "done" /\ net.transitions = <<>>) =>
        /\ bfs_markings = <<InitiallyMarked(net)>>
        /\ dfs_markings = <<InitiallyMarked(net)>>

\* Both runs are over for a net with no transition, a marked place and a place
\* that is not marked.
C8_Witness ==
    /\ pc = "done"
    /\ net.transitions = <<>>
    /\ InitiallyMarked(net) # {}
    /\ InitiallyMarked(net) # Keys(net.places)

\* C9: in a returned net every arc id is once in the outgoing lists, in the
\* list of the arc's source node, and once in the incoming lists, in the list
\* of its target node; every entry of a list is the id of an arc of the net.
Nodes(n) ==
    {[kind |-> "place", node |-> p] : p \in Range(n.places)}
    \cup {[kind |-> "transition", node |-> t] : t \in Range(n.transitions)}
Occurrences(list, aid) == Cardinality({i \in DOMAIN list : list[i] = aid})
HoldersOut(n, aid) == {x \in Nodes(n) : Occurrences(x.node.outgoing, aid) > 0}
HoldersIn(n, aid) == {x \in Nodes(n) : Occurrences(x.node.incoming, aid) > 0}
C9_IncidenceLists ==
    returned =>
        /\ \A a \in ArcSet(net) :
             /\ Cardinality(HoldersOut(net, a.id)) = 1
             /\ \A x \in HoldersOut(net, a.id) :
                  x.node.id = a.source /\ Occurrences(x.node.outgoing, a.id) = 1
             /\ Cardinality(HoldersIn(net, a.id)) = 1
             /\ \A x \in HoldersIn(net, a.id) :
                  x.node.id = a.target /\ Occurrences(x.node.incoming, a.id) = 1
        /\ \A x \in Nodes(net) :
             Range(x.node.incoming) \cup Range(x.node.outgoing) \subseteq Keys(net.arcs)

\* A net is returned in which one node is the source of two arcs and another
\* node is a target of one of them.
C9_Witness ==
    /\ returned
    /\ Len(net.arcs) = 2
    /\ \E x \in Nodes(net) : Len(x.node.outgoing) = 2
    /\ \E x \in Nodes(net) : Len(x.node.incoming) = 1 /\ Len(x.node.outgoing) = 0

\* The places and transitions with both lists empty, as an error names them.
Isolated(ps, ts) ==
    {Named("place", p.id, 0) :
        p \in {q \in Range(ps) : q.incoming = <<>> /\ q.outgoing = <<>>}}
    \cup {Named("transition", t.id, 0) :
        t \in {u \in Range(ts) : u.incoming = <<>> /\ u.outgoing = <<>>}}
\* The isolated-node check on dicts that hold such a node: construction fails
\* with one error whose names are all of them, each once.
C10_Step ==
    (pc = "isolated" /\ Isolated(places, transitions) # {}) =>
        /\ pc' = "exit"
        /\ ~returned'
        /\ error'.kind = "IsolatedNodes"
        /\ Range(error'.names) = Isolated(places, transitions)
        /\ Len(error'.names) = Cardinality(Isolated(places, transitions))
\* C10: no returned net has a place or a transition with both lists empty; when
\* the isolated-node check finds such nodes, construction fails with one error
\* that names every isolated place and every isolated transition.
C10_NoIsolatedNode ==
    /\ [](returned => Isolated(net.places, net.transitions) = {})
    /\ [][C10_Step]_vars

\* Construction failed with an isolated-node error that names two places and a
\* transition.
C10_Witness ==
    /\ pc = "exit"
    /\ error.kind = "IsolatedNodes"
    /\ Cardinality({x \in Range(error.names) : x.what = "place"}) = 2
    /\ Cardinality({x \in Range(error.names) : x.what = "transition"}) >= 1

\* The nets the explorer-only specification starts from are the nets parsePNML
\* returns: a returned net is one of ReturnedNets.
Bare(n) ==
    [places |-> [i \in DOMAIN n.places |->
                    Place(n.places[i].id, n.places[i].initial_marking)],
     transitions |-> [i \in DOMAIN n.transitions |-> Transition(n.transitions[i].id)]]
ReturnedNetIsListed ==
    returned =>
        /\ Bare(net).places \in PlaceDicts
        /\ Bare(net).transitions \in TransitionDicts
        /\ net.arcs \in ArcDicts
        /\ validate(Bare(net).places, Bare(net).transitions, net.arcs,
                    require_1safe) = NoError
        /\ net = linked(Bare(net).places, Bare(net).transitions, net.arcs)

\* The places parsePNML holds with an initial marking other than 0 and 1, as
\* the non-binary-marking error names them: the place and its value.
NonBinary(ps) ==
    {Named("place", p.id, p.initial_marking) :
        p \in {q \in Range(ps) : q.initial_marking # 0 /\ q.initial_marking # 1}}
\* The marking check of the 1-safe block on dicts with such a place:
\* construction fails with one error that names each of them once.
C11_Step ==
    (pc = "safe" /\ require_1safe /\ NonBinary(places) # {}) =>
        /\ pc' = "exit"
        /\ ~returned'
        /\ error'.kind = "NonBinaryMarkings"
        /\ Range(error'.names) = NonBinary(places)
        /\ Len(error'.names) = Cardinality(NonBinary(places))
\* C11: with require_1safe enabled every returned net has initial_marking 0
\* or 1 at every place and weight 1 at every arc; a net that passed the
\* earlier checks and has a place with another initial marking is rejected
\* with a non-binary-marking error naming every such place with its value.
C11_OneSafeChecks ==
    /\ []((returned /\ require_1safe) =>
            /\ \A p \in Range(net.places) : p.initial_marking \in {0, 1}
            /\ \A a \in ArcSet(net) : a.weight = 1)
    /\ [][C11_Step]_vars

\* Construction failed with a non-binary-marking error that names two places,
\* one of them with the value 2.
C11_Witness ==
    /\ pc = "exit"
    /\ error.kind = "NonBinaryMarkings"
    /\ Len(error.names) = 2
    /\ \E x \in Range(error.names) : x.val = 2
    /\ \E x \in Range(error.names) : x.val = -1

\* What the checks of parsePNML ask of a net in a mode: every endpoint is a
\* node, every weight is above 0, no node is isolated, and with require_1safe
\* every initial marking is 0 or 1 and every weight is 1.
PassedChecks(n, mode) ==
    /\ \A a \in ArcSet(n) :
         /\ a.source \in Keys(n.places) \cup Keys(n.transitions)
         /\ a.target \in Keys(n.places) \cup Keys(n.transitions)
         /\ a.weight > 0
    /\ Isolated(n.places, n.transitions) = {}
    /\ mode => /\ NonBinary(n.places) = {}
               /\ \A a \in ArcSet(n) : a.weight = 1
ExplorerUntouched ==
    /\ pre = <<>> /\ post = <<>> /\ visited = {} /\ container = <<>>
    /\ reachable_markings = <<>> /\ bfs_markings = <<>> /\ dfs_markings = <<>>
\* C12: construction is fail-closed: once a check of parsePNML has failed no
\* net is returned, the program takes no further step and
\* compute_reachable_markings is never started; the explorer runs only on a
\* returned net that passed every enabled check.
C12_FailClosed ==
    /\ [](error # NoError =>
            pc = "exit" /\ ~returned /\ net = NoNet /\ ExplorerUntouched)
    /\ [](pc \in {"printBFS", "loop", "printDFS", "done"} =>
            returned /\ error = NoError /\ PassedChecks(net, require_1safe))
    /\ [][pc # "exit"]_vars

\* Construction failed at the last check, the weight check of the 1-safe
\* block: no net is held and the program has stopped.
C12_Witness ==
    /\ pc = "exit"
    /\ error.kind = "NonUnitWeights"
    /\ ~returned
    /\ net = NoNet

\* The token-count firing rule of a net: W(x, y) is the sum of the weights of
\* the arcs from x to y; a counting K gives every place a number of tokens; t
\* is enabled at K iff every place p holds at least W(p, t) tokens, and firing
\* t takes W(p, t) tokens from p and puts W(t, p) tokens on p.
RECURSIVE WeightFrom(_, _, _, _)
WeightFrom(as, x, y, i) ==
    IF i > Len(as) THEN 0
    ELSE (IF as[i].source = x /\ as[i].target = y THEN as[i].weight ELSE 0)
         + WeightFrom(as, x, y, i + 1)
W(n, x, y) == WeightFrom(n.arcs, x, y, 1)
InitialCounting(n) == [p \in Keys(n.places) |-> Get(n.places, p).initial_marking]
TokenEnabled(n, K, tid) == \A p \in DOMAIN K : K[p] >= W(n, p, tid)
TokenFire(n, K, tid) == [p \in DOMAIN K |-> K[p] - W(n, p, tid) + W(n, tid, p)]

\* A marking M of the explorer and a counting K agree: every place holds 0 or
\* 1 tokens, the same transitions are enabled under the two rules, and a place
\* is in M exactly when it holds one token.
Agree(n, x) ==
    /\ \A p \in DOMAIN x.K : x.K[p] \in {0, 1}
    /\ \A tid \in Keys(n.transitions) :
         isEnabled(x.M, PreTable(n)[tid]) <=> TokenEnabled(n, x.K, tid)
    /\ \A p \in DOMAIN x.K : (p \in x.M) <=> (x.K[p] = 1)
\* The pairs of a marking and a counting obtained from M0 by firing the same
\* transitions under the two rules, for as long as the two agree.
LockstepSuccessors(n, x) ==
    IF ~Agree(n, x) THEN {}
    ELSE {[M |-> fire(x.M, PreTable(n)[tid], PostTable(n)[tid]),
           K |-> TokenFire(n, x.K, tid)] :
             tid \in {t \in Keys(n.transitions) : TokenEnabled(n, x.K, t)}}
RECURSIVE LockstepFrom(_, _)
LockstepFrom(n, Q) ==
    LET T == Q \cup UNION {LockstepSuccessors(n, x) : x \in Q} IN
    IF T = Q THEN Q ELSE LockstepFrom(n, T)
Lockstep(n) == LockstepFrom(n, {[M |-> InitialMarking(n), K |-> InitialCounting(n)]})
\* C13: for every net parsePNML returns with require_1safe enabled, the
\* explorer's firing on sets agrees with token-count firing along every
\* firing sequence from M0: every place holds 0 or 1 tokens, the same
\* transitions are enabled, and a place is in the marking exactly when its
\* count is 1.
C13_SetFiringIsTokenFiring ==
    (returned /\ require_1safe) => \A x \in Lockstep(net) : Agree(net, x)

\* What each pass looks for in the dicts parsePNML holds.
Unresolved(ps, ts, as) ==
    {a \in Range(as) : \/ a.source \notin Keys(ps) \cup Keys(ts)
                       \/ a.target \notin Keys(ps) \cup Keys(ts)}
Heavy(as) == {a \in Range(as) : a.weight # 1}
ExtractionErrors ==
    {"NoNet", "PlaceNoId", "DuplicatePlace", "TransitionNoId", "DuplicateTransition",
     "ArcNoId", "DuplicateArc", "ArcNoEndpoint", "NonPositiveWeight"}
\* The passes in their order, each with the passes that may follow it.
PassOrder ==
    {<<"net", "collect">>, <<"collect", "isolated">>, <<"isolated", "safe">>,
     <<"safe", "weights">>, <<"safe", "return">>, <<"weights", "return">>}
\* A step of parsePNML: the position moves along the order of the passes or
\* to the exit; an error is raised by the first pass that finds an offender,
\* whatever the later passes would find.
C14_Step ==
    /\ (pc \in {"net", "collect", "isolated", "safe", "weights"} /\ pc' # pc) =>
         \/ <<pc, pc'>> \in PassOrder /\ error' = NoError
         \/ pc' = "exit" /\ error' # NoError
    /\ (pc = "collect" /\ pc' = "isolated") => Unresolved(places, transitions, arcs) = {}
    /\ (pc = "isolated" /\ pc' = "safe") => Isolated(places, transitions) = {}
    /\ (pc = "safe" /\ pc' = "weights") => require_1safe /\ NonBinary(places) = {}
    /\ (pc = "safe" /\ pc' = "return") => ~require_1safe
    /\ (pc = "weights" /\ pc' = "return") => Heavy(arcs) = {}
    /\ pc' = "exit" =>
         /\ pc \in {"net", "collect"} =>
              error'.kind \in ExtractionErrors \cup {"SourceNotFound", "TargetNotFound"}
         /\ error'.kind \in {"SourceNotFound", "TargetNotFound"} =>
              Unresolved(places, transitions, arcs) # {}
         /\ pc = "isolated" =>
              error'.kind = "IsolatedNodes" /\ Isolated(places, transitions) # {}
         /\ pc = "safe" =>
              error'.kind = "NonBinaryMarkings" /\ NonBinary(places) # {}
         /\ pc = "weights" =>
              error'.kind = "NonUnitWeights" /\ Heavy(arcs) # {}
    /\ (pc = "isolated" /\ Isolated(places, transitions) # {}) =>
         pc' = "exit" /\ error'.kind = "IsolatedNodes"
    /\ (pc = "safe" /\ require_1safe /\ NonBinary(places) # {}) =>
         pc' = "exit" /\ error'.kind = "NonBinaryMarkings"
\* C14: the passes of parsePNML run in a fixed order (extraction, endpoint
\* resolution, isolated-node check, and with require_1safe the marking check
\* and then the weight check) and only the first failing pass raises: with an
\* isolated node and a non-binary marking the isolated-node error is raised,
\* with a non-binary marking and a weight other than 1 the non-binary-marking
\* error is raised and the weight check is not reached.
C14_FirstFailingPass == [][C14_Step]_vars

\* The marking check is reached, with require_1safe, by dicts that hold a
\* place with a non-binary marking and an arc with a weight other than 1.
C14_Witness ==
    /\ pc = "safe"
    /\ require_1safe
    /\ NonBinary(places) # {}
    /\ Heavy(arcs) # {}

\* The endpoints that resolve to no node, as an error names them: the arc and
\* the endpoint.
UnresolvedEndpoints(ps, ts, as) ==
    {Named("arc", a.id, a.source) :
        a \in {b \in Range(as) : b.source \notin Keys(ps) \cup Keys(ts)}}
    \cup {Named("arc", a.id, a.target) :
        a \in {b \in Range(as) : b.target \notin Keys(ps) \cup Keys(ts)}}
HeavyNames(as) == {Named("arc", a.id, 0) : a \in Heavy(as)}
\* A failing pass names all its offenders, each once.
NamesAll(offenders) ==
    /\ Range(error'.names) = offenders
    /\ Len(error'.names) = Cardinality(offenders)
\* The three aggregating passes: isolated nodes, markings, weights.
AggregatingPasses ==
    /\ (pc = "isolated" /\ Isolated(places, transitions) # {}) =>
         error'.kind = "IsolatedNodes" /\ NamesAll(Isolated(places, transitions))
    /\ (pc = "safe" /\ require_1safe /\ NonBinary(places) # {}) =>
         error'.kind = "NonBinaryMarkings" /\ NamesAll(NonBinary(places))
    /\ (pc = "weights" /\ Heavy(arcs) # {}) =>
         error'.kind = "NonUnitWeights" /\ NamesAll(HeavyNames(arcs))
\* C15 as claimed: within one pass all offenders are in the one error; when
\* several arcs have a source or target that is no node, the error of the
\* endpoint pass names every such arc and endpoint.
C15_EveryPassAggregates ==
    [][/\ AggregatingPasses
       /\ (pc = "collect" /\ Cardinality(Unresolved(places, transitions, arcs)) >= 2
              /\ error'.kind \in {"SourceNotFound", "TargetNotFound"}) =>
            NamesAll(UnresolvedEndpoints(places, transitions, arcs))]_vars

\* The first arc, in the order of the document, with an endpoint that is no
\* node, and the one name the endpoint pass gives: its source when that is no
\* node, else its target.
FirstUnresolved(ps, ts, as) ==
    as[CHOOSE i \in DOMAIN as :
          /\ as[i] \in Unresolved(ps, ts, as)
          /\ \A j \in 1 .. (i - 1) : as[j] \notin Unresolved(ps, ts, as)]
FirstUnresolvedError(ps, ts, as) ==
    LET a == FirstUnresolved(ps, ts, as) IN
    IF a.source \notin Keys(ps) \cup Keys(ts)
    THEN Err("SourceNotFound", <<Named("arc", a.id, a.source)>>)
    ELSE Err("TargetNotFound", <<Named("arc", a.id, a.target)>>)
\* C15 as amended: the isolated-node, marking and weight passes put all their
\* offenders in one error; the endpoint pass stops at the first arc with an
\* endpoint that is no node and names that arc and that endpoint only.
C15_EndpointPassStopsAtFirst ==
    [][/\ AggregatingPasses
       /\ (pc = "collect" /\ error'.kind \in {"SourceNotFound", "TargetNotFound"}) =>
            /\ Unresolved(places, transitions, arcs) # {}
            /\ error' = FirstUnresolvedError(places, transitions, arcs)
       /\ (pc = "collect" /\ pc' = "isolated") =>
            Unresolved(places, transitions, arcs) = {}]_vars

\* The document is read and its two arcs both have an endpoint that is no
\* node, three such endpoints in all.
C15_Witness ==
    /\ pc = "collect"
    /\ Cardinality(Unresolved(places, transitions, arcs)) = 2
    /\ Cardinality(UnresolvedEndpoints(places, transitions, arcs)) = 3

\* The ids that name both a place and a transition.
SharedIds(ps, ts) == Keys(ps) \cap Keys(ts)
PairwiseDistinct(d) == Cardinality(Keys(d)) = Len(d)
\* C16: in every returned net the place ids are pairwise distinct, the
\* transition ids are pairwise distinct and no transition id is a place id;
\* dicts in which a transition and a place share an id are rejected (the
\* transition holds no arc, and the isolated-node check names it).
C16_OneNodeNamespace ==
    /\ [](returned =>
            /\ PairwiseDistinct(net.places)
            /\ PairwiseDistinct(net.transitions)
            /\ SharedIds(net.places, net.transitions) = {})
    /\ [][(pc = "isolated" /\ SharedIds(places, transitions) # {}) =>
            /\ pc' = "exit"
            /\ ~returned'
            /\ error'.kind = "IsolatedNodes"
            /\ \A id \in SharedIds(places, transitions) :
                 Named("transition", id, 0) \in Range(error'.names)]_vars

\* The isolated-node check is reached by dicts in which an id names a place
\* and a transition, and that id is the source of an arc and the target of
\* an arc, so the place is not isolated.
C16_Witness ==
    /\ pc = "isolated"
    /\ \E id \in SharedIds(places, transitions) :
         /\ \E a \in Range(arcs) : a.source = id
         /\ \E a \in Range(arcs) : a.target = id
         /\ ~IsIsolated(Get(places, id))
    /\ Len(transitions) = 2

\* C17: in every returned net, with require_1safe enabled or disabled, the
\* initial_marking of every place is a non-negative integer and the weight of
\* every arc is a positive integer.
C17_MarkingsAndWeightsInRange ==
    returned =>
        /\ \A p \in Range(net.places) : p.initial_marking \in Nat
        /\ \A a \in ArcSet(net) : a.weight \in Nat \ {0}

IsPrefix(s, t) == Len(s) <= Len(t) /\ s = SubSeq(t, 1, Len(s))
Greatest(S) == CHOOSE x \in S : \A y \in S : y <= x
Least(S) == CHOOSE x \in S : \A y \in S : x <= y
\* One iteration of the loop and the frontier: what stays on the frontier
\* keeps its order and the pushed markings come after it; the breadth-first
\* run takes the entry at the old end (the one longest on the frontier), the
\* depth-first run the entry at the new end (the one pushed last), and a
\* marking that is appended to the result is the one taken.
C18_Pop ==
    (pc = "loop" /\ container # <<>>) =>
        LET n == Len(container) IN
        /\ ~dfs => /\ IsPrefix(SubSeq(container, 2, n), container')
                   /\ reachable_markings' # reachable_markings =>
                        reachable_markings'[Len(reachable_markings')] = container[1]
        /\ dfs => /\ IsPrefix(SubSeq(container, 1, n - 1), container')
                  /\ reachable_markings' # reachable_markings =>
                       reachable_markings'[Len(reachable_markings')] = container[n]
\* In a depth-first result r: the marking processed after r[i] is the
\* successor of r[i] through the enabled transition with the greatest id, when
\* that successor was not visited by then.
GreatestFirst(r) ==
    \A i \in 1 .. (Len(r) - 1) :
        LET M == r[i]
            E == EnabledAt(net, M)
        IN  (E # {} /\ FiringOf(net, M, Greatest(E)) \notin {r[j] : j \in 1 .. i}) =>
                r[i + 1] = FiringOf(net, M, Greatest(E))
\* C18: the frontier is first-in first-out in the breadth-first run and
\* last-in first-out in the depth-first run; hence in the depth-first run the
\* marking processed after an unvisited marking M is the successor of M
\* through the enabled transition with the greatest id, when that successor is
\* unvisited.
C18_FrontierDiscipline ==
    /\ [][C18_Pop]_vars
    /\ []((pc = "loop" /\ dfs) => GreatestFirst(reachable_markings))
    /\ [](pc = "done" => GreatestFirst(dfs_markings))

\* Both runs are over for a net with two transitions enabled at M0 whose
\* successors differ from each other and from M0: the depth-first sequence
\* goes on with the successor through the greater id, the breadth-first
\* sequence with the other.
C18_Witness ==
    /\ pc = "done"
    /\ LET M0 == InitiallyMarked(net)
           E == EnabledAt(net, M0)
       IN  /\ Cardinality(E) = 2
           /\ Cardinality({M0, FiringOf(net, M0, Least(E)), FiringOf(net, M0, Greatest(E))}) = 3
           /\ dfs_markings[2] = FiringOf(net, M0, Greatest(E))
           /\ bfs_markings[2] = FiringOf(net, M0, Least(E))

\* The least number of firings that lead from M0 to a reachable marking M.
RECURSIVE DistanceFrom(_, _, _, _)
DistanceFrom(n, M, S, d) ==
    IF M \in S THEN d
    ELSE DistanceFrom(n, M, S \cup UNION {SuccessorsOf(n, N) : N \in S}, d + 1)
Distance(n, M) == DistanceFrom(n, M, {InitiallyMarked(n)}, 0)
\* A breadth-first result r starts with M0 and is in non-decreasing order of
\* distance.
ByDistance(r) ==
    /\ r # <<>> => r[1] = InitiallyMarked(net)
    /\ \A i, j \in DOMAIN r : i < j => Distance(net, r[i]) <= Distance(net, r[j])
\* C19: the breadth-first sequence starts with M0 and lists the markings in
\* non-decreasing order of their least number of firings from M0, during the
\* run and when it is returned.
C19_BreadthFirstByDistance ==
    /\ (pc = "loop" /\ ~dfs) => ByDistance(reachable_markings)
    /\ pc = "printDFS" => bfs_markings # <<>> /\ ByDistance(bfs_markings)

\* The breadth-first run has returned four markings, the last of them two
\* firings from M0 and a successor of two markings one firing from M0, so it
\* was put on the frontier twice.
C19_Witness ==
    /\ pc = "printDFS"
    /\ Len(bfs_markings) = 4
    /\ Distance(net, bfs_markings[4]) = 2
    /\ Distance(net, bfs_markings[2]) = 1
    /\ Distance(net, bfs_markings[3]) = 1
    /\ bfs_markings[4] \in SuccessorsOf(net, bfs_markings[2])
    /\ bfs_markings[4] \in SuccessorsOf(net, bfs_markings[3])

\* A step of main after parsePNML has returned: the net stays as it is; in
\* the loop the markings of the result stay where and what they are and the
\* frontier keeps the entries that are not popped; the list handed to
\* printBFS or printDFS is the result, and is not changed afterwards.
C20_Step ==
    /\ returned => net' = net
    /\ (pc = "loop" /\ pc' = "loop") =>
         /\ IsPrefix(reachable_markings, reachable_markings')
         /\ IsPrefix(IF dfs THEN SubSeq(container, 1, Len(container) - 1)
                     ELSE SubSeq(container, 2, Len(container)), container')
    /\ (pc = "loop" /\ pc' = "printDFS") => bfs_markings' = reachable_markings
    /\ (pc = "loop" /\ pc' = "done") => dfs_markings' = reachable_markings
    /\ bfs_markings # <<>> => bfs_markings' = bfs_markings
    /\ dfs_markings # <<>> => dfs_markings' = dfs_markings
\* C20: compute_reachable_markings leaves the net unchanged in both modes
\* (places, transitions, arcs, initial markings, incidence lists), and no
\* marking already in the result or on the frontier is changed by a later
\* step.
C20_NetAndMarkingsUnchanged == [][C20_Step]_vars

\* Both runs are over for a net with two transitions and two arcs; each run
\* has processed three markings or more.
C20_Witness ==
    /\ pc = "done"
    /\ Len(net.arcs) = 2
    /\ Len(bfs_markings) >= 3
    /\ Len(dfs_markings) >= 3
    /\ Len(net.transitions) = 2

=============================================================================
